---- MODULE Spec2Model ----
(***************************************************************************)
(* Smart Grocery Saver (src/app.py): the three remote clients              *)
(* (classify_items_with_ai, extract_text_from_receipt,                     *)
(* preprocess_ocr_text), the aggregator _safe_sum and the Streamlit script *)
(* that chains them on the manual tab and on the receipt tab.              *)
(*                                                                         *)
(* Representation.                                                         *)
(*  - A Python str is a sequence of tokens; a token is one character or an *)
(*    indivisible piece of text.  The warning marker that opens every      *)
(*    sentinel message is the token Warn.                                  *)
(*  - A Python float is a record [nan, v]: v counts HALF units (the float  *)
(*    3.0 is v = 6), so that the division by 2.0 of the summary is exact;  *)
(*    nan is the IEEE not-a-number, which absorbs every addition and       *)
(*    fails every comparison.                                              *)
(*  - A JSON value returned by json.loads is a record with a kind tag.     *)
(***************************************************************************)
EXTENDS Integers, Sequences, FiniteSets, TLC

VARIABLES
    pc,               \* position of the script run
    clicked_text,     \* st.button("Analyze (Text)") of this run
    grocery_input,    \* st.text_area value of this run
    file,             \* st.file_uploader returned a file
    clicked_receipt,  \* st.button("Analyze (Receipt Text)") of this run
    grocery_text,     \* argument of the last classify_items_with_ai call
    cls_resp,         \* what the chat endpoint answered to that call
    data,             \* value classify_items_with_ai returned
    st_out,           \* st.error / st.write / st.json calls made by the client
    summary,          \* the rendered summary block
    submit_resp,      \* what the OCR endpoint answered to the submit
    op_location,      \* the job handle was obtained
    polls,            \* requests.get calls issued by the poll loop
    sleeps,           \* time.sleep(1) calls made by the poll loop
    result,           \* JSON of the last poll
    ocr_outcome,      \* the return statement extract_text_from_receipt took
    ocr_text,         \* value extract_text_from_receipt returned
    shown_text,       \* argument of st.text under "Extracted Text"
    pre_resp,         \* what the chat endpoint answered to preprocess_ocr_text
    cleaned_text,     \* value preprocess_ocr_text returned
    calls,            \* client calls of this run, in order
    button_shown,     \* "Analyze (Receipt Text)" was rendered by the last run
    crash             \* exception that left the script unhandled

vars == <<pc, clicked_text, grocery_input, file, clicked_receipt, grocery_text,
          cls_resp, data, st_out, summary, submit_resp, op_location, polls, sleeps, result,
          ocr_outcome, ocr_text, shown_text, pre_resp, cleaned_text, calls,
          button_shown, crash>>

\* ------------------------------------------------------------------ bounds

MaxItems == 2
MaxPages == 2
MaxLines == 2
MaxPolls == 60

\* ----------------------------------------------------------------- strings

Warn == "(!)"
Space == " "
Newline == "\n"

StartsWith(s, tok) == Len(s) > 0 /\ s[1] = tok

\* What str.strip() removes.
Whitespace == {Space, Newline}

RECURSIVE LStrip(_)
LStrip(s) == IF s # <<>> /\ Head(s) \in Whitespace THEN LStrip(Tail(s)) ELSE s

RECURSIVE RStrip(_)
RStrip(s) ==
    IF s # <<>> /\ s[Len(s)] \in Whitespace THEN RStrip(SubSeq(s, 1, Len(s) - 1)) ELSE s

\* str.strip()
Strip(s) == RStrip(LStrip(s))

RECURSIVE Join(_)
Join(lines) ==
    IF lines = <<>> THEN <<>>
    ELSE IF Len(lines) = 1 THEN lines[1]
    ELSE lines[1] \o <<Newline>> \o Join(Tail(lines))

\* All sequences over S of length at most n.
SeqsUpTo(S, n) == UNION {[1..k -> S] : k \in 0..n}

\* ------------------------------------------------------------------ floats

F(v) == [nan |-> FALSE, v |-> v]
NaN == [nan |-> TRUE, v |-> 0]
FAdd(a, b) == IF a.nan \/ b.nan THEN NaN ELSE F(a.v + b.v)
FHalf(a) == IF a.nan THEN NaN ELSE F(a.v \div 2)
FPositive(a) == ~a.nan /\ a.v > 0

\* ---------------------------------------------------------------- _safe_sum

\* A price as json.loads delivers it: a number, a string, true, null, or no
\* "price" key at all.
Price(t, n, s) == [t |-> t, n |-> n, s |-> s]
PriceVals ==
    { Price("num", 3, ""), Price("num", 4, ""), Price("str", 0, "abc"),
      Price("str", 0, "nan"), Price("true", 0, ""), Price("missing", 0, "") }

Item(name, p) == [item |-> name, price |-> p]

\* it.get("price", 0) or 0
PriceOrZero(p) ==
    IF p.t \in {"missing", "null"} \/ (p.t = "num" /\ p.n = 0) \/ (p.t = "str" /\ p.s = "")
    THEN Price("num", 0, "")
    ELSE p

\* float(x): [ok, val]; ok = FALSE is the ValueError of a string that is no
\* float literal.  float("nan") is a float, and so is float(True).
Float(p) ==
    CASE p.t = "num" -> [ok |-> TRUE, val |-> F(2 * p.n)]
      [] p.t = "true" -> [ok |-> TRUE, val |-> F(2)]
      [] p.t = "str" /\ p.s = "nan" -> [ok |-> TRUE, val |-> NaN]
      [] OTHER -> [ok |-> FALSE, val |-> F(0)]

\* One iteration of the loop body, lines 27-30.
AddPrice(total, it) ==
    LET f == Float(PriceOrZero(it.price))
    IN IF f.ok THEN FAdd(total, f.val) ELSE total

RECURSIVE SumFrom(_, _)
SumFrom(total, items) ==
    IF items = <<>> THEN total ELSE SumFrom(AddPrice(total, Head(items)), Tail(items))

SafeSum(items) == SumFrom(F(0), items)

\* -------------------------------------------------------------- JSON values

Keys == {"essentials", "non_essentials", "suggestions"}

JsonVal(kind, has, e, ne, sg, n) ==
    [kind |-> kind, has |-> has, essentials |-> e, non_essentials |-> ne,
     suggestions |-> sg, n |-> n]

\* Python None.
None == JsonVal("none", {}, <<>>, <<>>, <<>>, 0)
\* A JSON object; has is the set of the three keys it holds.
Dict(has, e, ne, sg) == JsonVal("dict", has, e, ne, sg, 0)
\* A JSON array of n numbers.
List(n) == JsonVal("list", {}, <<>>, <<>>, <<>>, n)

\* bool(data), as "if data:" evaluates it.
Truthy(d) ==
    CASE d.kind = "none" -> FALSE
      [] d.kind = "dict" -> d.has # {}
      [] d.kind = "list" -> d.n > 0
      [] OTHER -> FALSE

\* data.get(key, []) on a dict.
Get(d, key) ==
    CASE key \notin d.has -> <<>>
      [] key = "essentials" -> d.essentials
      [] key = "non_essentials" -> d.non_essentials
      [] OTHER -> d.suggestions

\* Message contents the chat endpoint may return for a classification.
C_Example ==
    "{\"essentials\": [{\"item\": \"Milk\", \"quantity\": 1, \"price\": 3}], \"non_essentials\": [{\"item\": \"Chips\", \"quantity\": 1, \"price\": 4}], \"suggestions\": [\"Buy store brands\"]}"
C_Partial == "{\"essentials\": [{\"item\": \"Milk\", \"quantity\": 1, \"price\": 3}]}"
C_EmptyObject == "{}"
C_List == "[1, 2]"
C_Null == "null"
C_Prose == "Sure! Essentials: Milk. Non-essentials: Chips."

Contents == {C_Example, C_Partial, C_EmptyObject, C_List, C_Null, C_Prose}

\* json.loads(content): [ok, val]; ok = FALSE is json.JSONDecodeError.
JsonLoads(content) ==
    CASE content = C_Example ->
           [ok |-> TRUE,
            val |-> Dict(Keys, <<Item("Milk", Price("num", 3, ""))>>,
                         <<Item("Chips", Price("num", 4, ""))>>,
                         <<"Buy store brands">>)]
      [] content = C_Partial ->
           [ok |-> TRUE,
            val |-> Dict({"essentials"}, <<Item("Milk", Price("num", 3, ""))>>,
                         <<>>, <<>>)]
      [] content = C_EmptyObject -> [ok |-> TRUE, val |-> Dict({}, <<>>, <<>>, <<>>)]
      [] content = C_List -> [ok |-> TRUE, val |-> List(2)]
      [] content = C_Null -> [ok |-> TRUE, val |-> None]
      [] OTHER -> [ok |-> FALSE, val |-> None]

\* ------------------------------------------------------- the chat endpoint

\* One answer to requests.post on the chat-completion endpoint.
\*   k = "neterr"  : requests.post raises (connection fault, timeout)
\*   k = "http"    : a non-success status; the body is JSON or not (json_body)
\*   k = "badbody" : status 200, the body is no JSON: resp.json() raises exc
\*   k = "nofield" : status 200, JSON without "choices"
\*   k = "ok"      : status 200, choices[0].message.content is content (or null)
ChatResponse(k, exc, json_body, text, content_null, content) ==
    [k |-> k, exc |-> exc, json_body |-> json_body, text |-> text,
     content_null |-> content_null, content |-> content]

NoResponse == ChatResponse("none", "", FALSE, "", FALSE, "")

\* resp.json() on a body that is no JSON raises requests' JSONDecodeError, which
\* derives from json.JSONDecodeError, or from simplejson's when that package is
\* installed: the environment decides which.
BodyErrors == {"json.JSONDecodeError", "simplejson.JSONDecodeError"}

FailedChatResponses ==
    { ChatResponse("neterr", "ConnectionError", FALSE, "", FALSE, ""),
      ChatResponse("http", "429 Client Error", TRUE, "{\"error\": {\"code\": \"429\"}}", FALSE, ""),
      ChatResponse("http", "503 Server Error", FALSE, "Service Unavailable", FALSE, ""),
      ChatResponse("nofield", "KeyError: 'choices'", TRUE, "{\"id\": \"x\"}", FALSE, "") }
    \cup { ChatResponse("badbody", e, FALSE, "<html>Bad Gateway</html>", FALSE, "") :
             e \in BodyErrors }

ClassifyResponses ==
    FailedChatResponses
    \cup { ChatResponse("ok", "TypeError", TRUE, "", TRUE, "") }
    \cup { ChatResponse("ok", "", TRUE, "", FALSE, c) : c \in Contents }

StCall(fn, arg) == [fn |-> fn, arg |-> arg]

ClsReturn(ret, out) == [ret |-> ret, out |-> out, raised |-> "none"]

\* The handler that always shows the placeholder and drops the content.
OnJSONDecodeErrorPlaceholder(has_payload, content) ==
    ClsReturn(None,
              << StCall("error", "AI did not return valid JSON. Showing raw content:"),
                 StCall("write", "(no content)") >>)

\* except json.JSONDecodeError, lines 67-70; has_payload is '"payload" in locals()'.
OnJSONDecodeError(has_payload, content) ==
    ClsReturn(None,
              << StCall("error", "AI did not return valid JSON. Showing raw content:"),
                 StCall("write", IF has_payload THEN content ELSE "(no content)") >>)

\* except requests.HTTPError, lines 71-77.
OnHTTPError(r) ==
    ClsReturn(None,
              << StCall("error", "Azure OpenAI HTTP error"),
                 StCall(IF r.json_body THEN "json" ELSE "write", r.text) >>)

\* except Exception as e, lines 78-80.
OnException(e) ==
    ClsReturn(None, << StCall("error", "Unexpected error calling Azure OpenAI: " \o e) >>)

\* classify_items_with_ai answered by r, lines 61-80.
Classify(r) ==
    CASE r.k = "neterr" -> OnException(r.exc)
      [] r.k = "http" -> OnHTTPError(r)
      [] r.k = "badbody" ->
           IF r.exc = "json.JSONDecodeError"
           THEN OnJSONDecodeError(FALSE, "")
           ELSE OnException(r.exc)
      [] r.k = "nofield" -> OnException(r.exc)
      [] OTHER ->
           IF r.content_null THEN OnException(r.exc)
           ELSE LET j == JsonLoads(r.content)
                IN IF j.ok THEN ClsReturn(j.val, <<>>)
                   ELSE OnJSONDecodeError(TRUE, r.content)

\* ----------------------------------------------------- preprocess_ocr_text

P_Table == "Item - Quantity - Price\nMilk - 1 - 3\nChips - 2 - 5"
P_Empty == "Item - Quantity - Price"

PreprocessResponses ==
    FailedChatResponses
    \cup { ChatResponse("ok", "", TRUE, "", FALSE, c) : c \in {P_Table, P_Empty} }

PreprocessError(e) == <<Warn, " Error preprocessing OCR text: ", e>>

PreReturn(text) == [text |-> text, raised |-> "none"]

\* except Exception as e, lines 153-154.
PreprocessCatch(e) == PreReturn(PreprocessError(e))

\* preprocess_ocr_text answered by r, lines 148-154.
Preprocess(r) ==
    IF r.k = "ok" THEN PreReturn(<<r.content>>) ELSE PreprocessCatch(r.exc)

\* ------------------------------------------------------------- the summary

NoSummary ==
    [shown |-> FALSE, essentials |-> <<>>, non_essentials |-> <<>>,
     suggestions |-> <<>>, essentials_total |-> F(0), non_essentials_total |-> F(0),
     total_spent |-> F(0), saving_remove |-> F(0), saving_half |-> F(0),
     savings_shown |-> FALSE, pct_remove |-> 0, pct_half |-> 0]

\* The guard written ">= 0": the percentages are computed on a zero total.
ShowSavingsNonNegative(total_spent) == ~total_spent.nan /\ total_spent.v >= 0

\* "if total_spent > 0:", lines 198 and 254.
ShowSavings(total_spent) == FPositive(total_spent)

\* f"{(saving/total_spent)*100:.1f}": tenths of a percent, rounded half to even.
\* ok = FALSE is the ZeroDivisionError of a float division by 0.0.
Percent(saving, total_spent) ==
    IF saving.nan \/ total_spent.nan THEN [ok |-> TRUE, tenths |-> 0]
    ELSE IF total_spent.v = 0 THEN [ok |-> FALSE, tenths |-> 0]
    ELSE LET num == 1000 * saving.v
             t == IF total_spent.v > 0 THEN total_spent.v ELSE -total_spent.v
             n == IF total_spent.v > 0 THEN num ELSE -num
             q == n \div t
             r == n - q * t
         IN [ok |-> TRUE,
             tenths |-> IF 2 * r > t \/ (2 * r = t /\ q % 2 = 1) THEN q + 1 ELSE q]

\* The block under "if data:", lines 181-212 (and its copy, lines 237-268):
\* [summary, raised].
Summarise(d) ==
    IF ~Truthy(d) THEN [summary |-> NoSummary, raised |-> "none"]
    ELSE IF d.kind # "dict" THEN [summary |-> NoSummary, raised |-> "AttributeError"]
    ELSE
      LET essentials == Get(d, "essentials")
          non_essentials == Get(d, "non_essentials")
          suggestions == Get(d, "suggestions")
          essentials_total == SafeSum(essentials)
          non_essentials_total == SafeSum(non_essentials)
          total_spent == FAdd(essentials_total, non_essentials_total)
          saving_remove == non_essentials_total
          saving_half == FHalf(non_essentials_total)
          show == ShowSavings(total_spent)
          pr == Percent(saving_remove, total_spent)
          ph == Percent(saving_half, total_spent)
      IN IF show /\ ~(pr.ok /\ ph.ok)
         THEN [summary |-> NoSummary, raised |-> "ZeroDivisionError"]
         ELSE [summary |->
                 [shown |-> TRUE, essentials |-> essentials,
                  non_essentials |-> non_essentials, suggestions |-> suggestions,
                  essentials_total |-> essentials_total,
                  non_essentials_total |-> non_essentials_total,
                  total_spent |-> total_spent, saving_remove |-> saving_remove,
                  saving_half |-> saving_half, savings_shown |-> show,
                  pct_remove |-> IF show THEN pr.tenths ELSE 0,
                  pct_half |-> IF show THEN ph.tenths ELSE 0],
               raised |-> "none"]

\* ---------------------------------------------- extract_text_from_receipt

NoHandle == <<Warn, " OCR did not return a valid Operation-Location.">>
NoTextFound == <<Warn, " No text found on this receipt.">>
OcrFailed == <<Warn, " OCR failed to process the receipt.">>
OcrTimedOut == <<Warn, " OCR timed out while reading the receipt.">>
OcrError(e) == <<Warn, " OCR error: ", e>>

\* One entry of a page's "lines": with a "text" or without.
Line(has_text, text) == [has_text |-> has_text, text |-> text]

\* The line taken as it comes, without .strip().
LineTextUnstripped(line) == IF line.has_text THEN line.text ELSE <<>>

\* line.get("text", "").strip()
LineText(line) == Strip(IF line.has_text THEN line.text ELSE <<>>)

\* The inner loop, lines 106-109.
RECURSIVE PageLines(_, _)
PageLines(lines, page) ==
    IF page = <<>> THEN lines
    ELSE LET txt == LineText(Head(page))
         IN PageLines(IF txt # <<>> THEN Append(lines, txt) ELSE lines, Tail(page))

\* The outer loop, line 105.
RECURSIVE ReadLines(_, _)
ReadLines(lines, readResults) ==
    IF readResults = <<>> THEN lines
    ELSE ReadLines(PageLines(lines, Head(readResults)), Tail(readResults))

\* The "succeeded" branch, lines 103-110: [outcome, text].
ExtractText(readResults) ==
    LET lines == ReadLines(<<>>, readResults)
    IN IF lines # <<>> THEN [outcome |-> "text", text |-> Join(lines)]
       ELSE [outcome |-> "no_text", text |-> NoTextFound]

\* str.lower() on the status values the Read API returns.
Lower(status) ==
    CASE status = "Succeeded" -> "succeeded"
      [] status = "Failed" -> "failed"
      [] status = "notStarted" -> "notstarted"
      [] OTHER -> status

\* One answer to the submit POST: a fault, a non-success status, or a success
\* that gives the job handle in the header, in the JSON body, or nowhere, the
\* body being no JSON at all in the last case of body.
SubmitResponse(k, exc, header_loc, body) ==
    [k |-> k, exc |-> exc, header_loc |-> header_loc, body |-> body]

NoSubmit == SubmitResponse("none", "", FALSE, "")

SubmitResponses ==
    { SubmitResponse("neterr", "ConnectionError", FALSE, ""),
      SubmitResponse("http", "401 Client Error", FALSE, ""),
      SubmitResponse("ok", "", TRUE, "notjson") }
    \cup { SubmitResponse("ok", "Expecting value", FALSE, b) : b \in {"loc", "noloc", "notjson"} }

\* One answer to a poll GET; status "" is a body without "status".
PollResponse(k, exc, status, readResults) ==
    [k |-> k, exc |-> exc, status |-> status, readResults |-> readResults]

NoResult == PollResponse("none", "", "", <<>>)

Statuses == {"succeeded", "Succeeded", "failed", "Failed", "running", "notStarted", ""}

\* analyzeResult.readResults of the receipts the main flow is run on: no page,
\* blank lines only, two pages, and a receipt whose first line opens with the
\* warning marker.
R_None == <<>>
R_Blank == << <<Line(TRUE, <<Space>>), Line(FALSE, <<>>)>> >>
R_TwoPages ==
    << <<Line(TRUE, <<Space, "Milk 3", Space>>), Line(TRUE, <<Space, Space>>)>>,
       <<Line(TRUE, <<"Chips 4">>)>> >>
R_Marked == << <<Line(TRUE, <<Warn, "SALE">>)>> >>

Receipts == {R_None, R_Blank, R_TwoPages, R_Marked}

FailedPollResponses ==
    { PollResponse("neterr", "ReadTimeout", "", <<>>),
      PollResponse("http", "404 Client Error", "", <<>>),
      PollResponse("badbody", "Expecting value", "", <<>>) }

PollResponses ==
    FailedPollResponses
    \cup { PollResponse("ok", "", s, <<>>) : s \in Statuses \ {"succeeded", "Succeeded"} }
    \cup { PollResponse("ok", "", s, rr) : s \in {"succeeded", "Succeeded"}, rr \in Receipts }

ExtractReturn(outcome, text) == [outcome |-> outcome, text |-> text, raised |-> "none"]

\* The routine without its catch-all: the exception reaches the caller.
OcrCatchReraises(e) == [outcome |-> "error", text |-> <<>>, raised |-> e]

\* except Exception as e, lines 116-117.
OcrCatch(e) == ExtractReturn("error", OcrError(e))

\* The loop bound off by one: a 61st pass.
LoopContinuesOffByOne(i) == i <= MaxPolls

\* "for _ in range(60)", line 96: the loop body runs again after i polls.
LoopContinues(i) == i < MaxPolls

\* The submit, lines 90-94: the return it takes, or "pending" for the loop.
SubmitResult(r) ==
    CASE r.k \in {"neterr", "http"} -> OcrCatch(r.exc)
      [] r.header_loc -> ExtractReturn("pending", <<>>)
      [] r.body = "notjson" -> OcrCatch(r.exc)
      [] r.body = "noloc" -> ExtractReturn("no_handle", NoHandle)
      [] OTHER -> ExtractReturn("pending", <<>>)

\* The loop body without its "failed" branch: a failed job is polled on.
PollResultIgnoresFailed(r) ==
    IF r.k # "ok" THEN OcrCatch(r.exc)
    ELSE IF Lower(r.status) = "succeeded"
         THEN LET x == ExtractText(r.readResults)
              IN ExtractReturn(x.outcome, x.text)
         ELSE ExtractReturn("pending", <<>>)

\* One pass of the loop body after the GET, lines 98-113: the return it takes,
\* or "pending" when it falls through to time.sleep(1).
PollResult(r) ==
    IF r.k # "ok" THEN OcrCatch(r.exc)
    ELSE LET status == Lower(r.status)
         IN IF status = "succeeded"
            THEN LET x == ExtractText(r.readResults)
                 IN ExtractReturn(x.outcome, x.text)
            ELSE IF status = "failed" THEN ExtractReturn("failed", OcrFailed)
            ELSE ExtractReturn("pending", <<>>)

\* The guard without its prefix test: any non-empty text goes downstream.
UsableTextAnyNonEmpty(text) == text # <<>>

\* "if ocr_text and not ocr_text.startswith(marker)", line 227.
UsableText(text) == text # <<>> /\ ~StartsWith(text, Warn)

\* ------------------------------------------------------------ the script

NoCrash == [where |-> "", exc |-> ""]
Raised(where, exc) == IF exc = "none" THEN NoCrash ELSE [where |-> where, exc |-> exc]
\* An unhandled exception ends the run.
After(exc, next) == IF exc = "none" THEN next ELSE "idle"

GroceryInputs == {<<>>, <<Space, Newline>>, <<"Milk - 3", Newline, "Chips - 4">>}

\* The script's variables before its first statement.
Fresh ==
    /\ grocery_text = <<>>
    /\ cls_resp = NoResponse
    /\ data = None
    /\ st_out = <<>>
    /\ summary = NoSummary
    /\ submit_resp = NoSubmit
    /\ op_location = FALSE
    /\ polls = 0
    /\ sleeps = 0
    /\ result = NoResult
    /\ ocr_outcome = "none"
    /\ ocr_text = <<>>
    /\ shown_text = <<>>
    /\ pre_resp = NoResponse
    /\ cleaned_text = <<>>
    /\ calls = <<>>
    /\ crash = NoCrash

Init ==
    /\ pc = "idle"
    /\ clicked_text = FALSE
    /\ grocery_input = <<>>
    /\ file = FALSE
    /\ clicked_receipt = FALSE
    /\ button_shown = FALSE
    /\ Fresh

\* A rerun of the script: one widget interaction at most, and the receipt
\* button can be clicked only if the previous run rendered it.
StartRun ==
    /\ pc = "idle"
    /\ pc' = "tab_text"
    /\ clicked_text' \in BOOLEAN
    /\ grocery_input' \in GroceryInputs
    /\ file' \in BOOLEAN
    /\ clicked_receipt' \in (IF button_shown THEN BOOLEAN ELSE {FALSE})
    /\ ~(clicked_text' /\ clicked_receipt')
    /\ button_shown' = FALSE
    /\ grocery_text' = <<>>
    /\ cls_resp' = NoResponse
    /\ data' = None
    /\ st_out' = <<>>
    /\ summary' = NoSummary
    /\ submit_resp' = NoSubmit
    /\ op_location' = FALSE
    /\ polls' = 0
    /\ sleeps' = 0
    /\ result' = NoResult
    /\ ocr_outcome' = "none"
    /\ ocr_text' = <<>>
    /\ shown_text' = <<>>
    /\ pre_resp' = NoResponse
    /\ cleaned_text' = <<>>
    /\ calls' = <<>>
    /\ crash' = NoCrash

ui == <<clicked_text, grocery_input, file, clicked_receipt>>
cls == <<grocery_text, cls_resp, data, st_out>>
ocr == <<submit_resp, op_location, polls, sleeps, result, ocr_outcome, ocr_text>>
pre == <<pre_resp, cleaned_text>>

\* The call "data = classify_items_with_ai(text)", lines 179 and 235.
CallClassify(text, r, tag, next) ==
    LET c == Classify(r)
    IN /\ grocery_text' = text
       /\ cls_resp' = r
       /\ data' = c.ret
       /\ st_out' = st_out \o c.out
       /\ calls' = Append(calls, tag)
       /\ crash' = Raised("classify_items_with_ai", c.raised)
       /\ pc' = After(c.raised, next)

\* Line 174 with the button not clicked.
TextIdle ==
    /\ pc = "tab_text"
    /\ ~clicked_text
    /\ pc' = "tab_ocr"
    /\ UNCHANGED <<ui, cls, summary, ocr, shown_text, pre, calls, button_shown, crash>>

\* Lines 175-176.
TextWarn ==
    /\ pc = "tab_text"
    /\ clicked_text
    /\ Strip(grocery_input) = <<>>
    /\ st_out' = Append(st_out, StCall("warning", "Please enter your grocery list."))
    /\ pc' = "tab_ocr"
    /\ UNCHANGED <<ui, grocery_text, cls_resp, data, summary, ocr, shown_text, pre,
                   calls, button_shown, crash>>

\* Lines 177-179.
TextAnalyze ==
    /\ pc = "tab_text"
    /\ clicked_text
    /\ Strip(grocery_input) # <<>>
    /\ \E r \in ClassifyResponses :
          CallClassify(grocery_input, r, "classify:text", "text_summary")
    /\ UNCHANGED <<ui, summary, ocr, shown_text, pre, button_shown>>

\* Lines 181-212.
TextSummary ==
    /\ pc = "text_summary"
    /\ LET s == Summarise(data)
       IN /\ summary' = s.summary
          /\ crash' = Raised("tab_text", s.raised)
          /\ pc' = After(s.raised, "tab_ocr")
    /\ UNCHANGED <<ui, cls, ocr, shown_text, pre, calls, button_shown>>

\* Line 219 with no file uploaded.
OcrNoFile ==
    /\ pc = "tab_ocr"
    /\ ~file
    /\ pc' = "idle"
    /\ UNCHANGED <<ui, cls, summary, ocr, shown_text, pre, calls, button_shown, crash>>

\* The return of extract_text_from_receipt to line 222.
FinishExtract(ret) ==
    /\ ocr_outcome' = ret.outcome
    /\ ocr_text' = ret.text
    /\ crash' = Raised("extract_text_from_receipt", ret.raised)
    /\ pc' = After(ret.raised, "ocr_show")

\* Lines 219-222 and 89-94.
OcrSubmit ==
    /\ pc = "tab_ocr"
    /\ file
    /\ calls' = Append(calls, "extract")
    /\ \E r \in SubmitResponses :
          LET ret == SubmitResult(r)
          IN /\ submit_resp' = r
             /\ IF ret.outcome = "pending"
                THEN /\ op_location' = TRUE
                     /\ pc' = "ocr_poll"
                     /\ UNCHANGED <<ocr_outcome, ocr_text, crash>>
                ELSE /\ op_location' = FALSE
                     /\ FinishExtract(ret)
    /\ UNCHANGED <<ui, cls, summary, polls, sleeps, result, shown_text, pre, button_shown>>

\* One iteration of the poll loop answered by r, lines 96-113.
PollStep(r) ==
    LET ret == PollResult(r)
    IN /\ polls' = polls + 1
       /\ result' = r
       /\ IF ret.outcome = "pending"
          THEN /\ sleeps' = sleeps + 1
               /\ UNCHANGED <<pc, ocr_outcome, ocr_text, crash>>
          ELSE /\ sleeps' = sleeps
               /\ FinishExtract(ret)

OcrPollWith(responses) ==
    /\ pc = "ocr_poll"
    /\ LoopContinues(polls)
    /\ \E r \in responses : PollStep(r)
    /\ UNCHANGED <<ui, cls, summary, submit_resp, op_location, shown_text, pre, calls,
                   button_shown>>

OcrPoll == OcrPollWith(PollResponses)

\* Line 115.
OcrTimeout ==
    /\ pc = "ocr_poll"
    /\ ~LoopContinues(polls)
    /\ FinishExtract(ExtractReturn("timeout", OcrTimedOut))
    /\ UNCHANGED <<ui, cls, summary, submit_resp, op_location, polls, sleeps, result, shown_text,
                   pre, calls, button_shown>>

\* Lines 224-227.
OcrShow ==
    /\ pc = "ocr_show"
    /\ shown_text' = IF ocr_text # <<>> THEN ocr_text ELSE <<"(No text extracted)">>
    /\ pc' = IF UsableText(ocr_text) THEN "preprocess" ELSE "idle"
    /\ UNCHANGED <<ui, cls, summary, ocr, pre, calls, button_shown, crash>>

\* Lines 228-233: the cleaning call, and the button rendered.
PreprocessCall ==
    /\ pc = "preprocess"
    /\ \E r \in PreprocessResponses :
          LET ret == Preprocess(r)
          IN /\ pre_resp' = r
             /\ cleaned_text' = ret.text
             /\ crash' = Raised("preprocess_ocr_text", ret.raised)
             /\ pc' = After(ret.raised, "receipt_button")
             /\ button_shown' = (ret.raised = "none")
    /\ calls' = Append(calls, "preprocess")
    /\ UNCHANGED <<ui, cls, summary, ocr, shown_text>>

\* Line 233 with the button not clicked.
ReceiptIdle ==
    /\ pc = "receipt_button"
    /\ ~clicked_receipt
    /\ pc' = "idle"
    /\ UNCHANGED <<ui, cls, summary, ocr, shown_text, pre, calls, button_shown, crash>>

\* Lines 233-235.
ReceiptAnalyze ==
    /\ pc = "receipt_button"
    /\ clicked_receipt
    /\ \E r \in ClassifyResponses :
          CallClassify(cleaned_text, r, "classify:receipt", "ocr_summary")
    /\ UNCHANGED <<ui, summary, ocr, shown_text, pre, button_shown>>

\* Lines 237-268.
ReceiptSummary ==
    /\ pc = "ocr_summary"
    /\ LET s == Summarise(data)
       IN /\ summary' = s.summary
          /\ crash' = Raised("tab_ocr", s.raised)
          /\ pc' = "idle"
    /\ UNCHANGED <<ui, cls, ocr, shown_text, pre, calls, button_shown>>

Next ==
    \/ StartRun
    \/ TextIdle
    \/ TextWarn
    \/ TextAnalyze
    \/ TextSummary
    \/ OcrNoFile
    \/ OcrSubmit
    \/ OcrPoll
    \/ OcrTimeout
    \/ OcrShow
    \/ PreprocessCall
    \/ ReceiptIdle
    \/ ReceiptAnalyze
    \/ ReceiptSummary

Spec == Init /\ [][Next]_vars

\* ------------------------------------- the summary on bounded item lists

Items == {Item("x", p) : p \in PriceVals}
ItemLists == SeqsUpTo(Items, MaxItems)

\* The script at "if data:" of either tab, data being any classification
\* result over the bounded item lists.
InitSum ==
    /\ pc \in {"text_summary", "ocr_summary"}
    /\ data \in {Dict(Keys, e, ne, <<>>) : e \in ItemLists, ne \in ItemLists}
    /\ clicked_text = (pc = "text_summary")
    /\ grocery_input = <<"Milk - 3", Newline, "Chips - 4">>
    /\ file = (pc = "ocr_summary")
    /\ clicked_receipt = (pc = "ocr_summary")
    /\ button_shown = (pc = "ocr_summary")
    /\ grocery_text = <<>>
    /\ cls_resp = NoResponse
    /\ st_out = <<>>
    /\ summary = NoSummary
    /\ submit_resp = NoSubmit
    /\ op_location = FALSE
    /\ polls = 0
    /\ sleeps = 0
    /\ result = NoResult
    /\ ocr_outcome = "none"
    /\ ocr_text = <<>>
    /\ shown_text = <<>>
    /\ pre_resp = NoResponse
    /\ cleaned_text = <<>>
    /\ calls = <<>>
    /\ crash = NoCrash

NextSum ==
    \/ TextSummary
    \/ ReceiptSummary

SpecSum == InitSum /\ [][NextSum]_vars

\* ------------------------------------ the poll loop on bounded receipts

LineTexts == {<<Space>>, <<"a">>, <<Space, "b", Space>>}
WidePages == SeqsUpTo({Line(TRUE, t) : t \in LineTexts}, MaxLines)
WideReceipts == SeqsUpTo(WidePages, MaxPages)

\* extract_text_from_receipt entering its poll loop with a job handle.
InitExtract ==
    /\ pc = "ocr_poll"
    /\ clicked_text = FALSE
    /\ grocery_input = <<>>
    /\ file = TRUE
    /\ clicked_receipt = FALSE
    /\ button_shown = FALSE
    /\ grocery_text = <<>>
    /\ cls_resp = NoResponse
    /\ data = None
    /\ st_out = <<>>
    /\ summary = NoSummary
    /\ submit_resp = SubmitResponse("ok", "", TRUE, "notjson")
    /\ op_location = TRUE
    /\ polls = 0
    /\ sleeps = 0
    /\ result = NoResult
    /\ ocr_outcome = "none"
    /\ ocr_text = <<>>
    /\ shown_text = <<>>
    /\ pre_resp = NoResponse
    /\ cleaned_text = <<>>
    /\ calls = <<"extract">>
    /\ crash = NoCrash

\* A poll that reports "succeeded" with any of the bounded receipts.
OcrPollRead ==
    OcrPollWith({PollResponse("ok", "", "succeeded", rr) : rr \in WideReceipts})

NextExtract ==
    \/ OcrPollRead
    \/ OcrShow

SpecExtract == InitExtract /\ [][NextExtract]_vars

\* ------------------------------------------------------------ properties

Range(f) == {f[i] : i \in DOMAIN f}

\* The last poll reported a terminal status, in whatever letter case.
TerminalReported ==
    result.k = "ok" /\ result.status \in {"succeeded", "Succeeded", "failed", "Failed"}
SucceededReported == result.k = "ok" /\ result.status \in {"succeeded", "Succeeded"}

\* extract_text_from_receipt has returned in this run.
Returned == ocr_outcome # "none"

\* A text with its leading and trailing white space removed, by position.
Trim(t) ==
    LET idx == {i \in 1..Len(t) : t[i] \notin {Space, Newline}}
    IN IF idx = {} THEN <<>>
       ELSE SubSeq(t, CHOOSE i \in idx : \A j \in idx : i <= j,
                      CHOOSE i \in idx : \A j \in idx : i >= j)

\* The line texts of all pages, page after page, each page in line order.
RECURSIVE Flatten(_)
Flatten(readResults) ==
    IF readResults = <<>> THEN <<>>
    ELSE [i \in 1..Len(readResults[1]) |->
            IF readResults[1][i].has_text THEN readResults[1][i].text ELSE <<>>]
         \o Flatten(Tail(readResults))

NonEmpty(t) == t # <<>>

ExpectedLines(readResults) ==
    LET flat == Flatten(readResults)
    IN SelectSeq([i \in 1..Len(flat) |-> Trim(flat[i])], NonEmpty)

\* A text cut at its line breaks.
RECURSIVE SplitLines(_)
SplitLines(t) ==
    IF \A i \in 1..Len(t) : t[i] # Newline THEN <<t>>
    ELSE LET i == CHOOSE k \in 1..Len(t) :
                    t[k] = Newline /\ \A j \in 1..(k - 1) : t[j] # Newline
         IN <<SubSeq(t, 1, i - 1)>> \o SplitLines(SubSeq(t, i + 1, Len(t)))

\* The returned text is the expected lines joined by line breaks, or the
\* no-text sentinel when there is none.
TextMatches(readResults) ==
    IF ExpectedLines(readResults) = <<>>
    THEN ocr_outcome = "no_text" /\ ocr_text = NoTextFound
    ELSE ocr_outcome = "text" /\ SplitLines(ocr_text) = ExpectedLines(readResults)

\* C1, as stated: after a submit that yielded a job handle, if no poll ever
\* reports a terminal status, the call ends after exactly 60 polls with the
\* timeout sentinel.
C1_NoTerminalMeansTimeout ==
    (Returned /\ op_location /\ ~TerminalReported)
        => (polls = MaxPolls /\ ocr_text = OcrTimedOut)

\* C1, amended: after a submit that yielded a job handle, if every poll
\* completes without a fault and none reports a terminal status, the call ends
\* after exactly 60 polls (each followed by its sleep) with the timeout
\* sentinel; and no run ever issues a 61st poll.
C1_Timeout ==
    /\ polls <= MaxPolls
    /\ (Returned /\ op_location /\ result.k = "ok" /\ ~TerminalReported)
          => (polls = MaxPolls /\ sleeps = MaxPolls /\ ocr_outcome = "timeout"
              /\ ocr_text = OcrTimedOut)

C1_Witness ==
    /\ ocr_outcome = "timeout"
    /\ polls = 60
    /\ result.status = "running"
    /\ ocr_text = OcrTimedOut

\* C2: when the k-th poll is the first to report a terminal status, the loop is
\* left at that poll (1 <= k <= 60 polls issued, k - 1 sleeps, none after it),
\* with the extracted text or the no-text sentinel for succeeded and the
\* failure sentinel for failed.
C2_TerminalStops ==
    TerminalReported =>
        /\ pc # "ocr_poll"
        /\ Returned
        /\ polls \in 1..MaxPolls
        /\ sleeps = polls - 1
        /\ crash.where # "extract_text_from_receipt"
        /\ IF SucceededReported
           THEN TextMatches(result.readResults)
           ELSE ocr_outcome = "failed" /\ ocr_text = OcrFailed

C2_Witness ==
    /\ result.status = "failed"
    /\ polls = 3
    /\ sleeps = 2
    /\ ocr_text = OcrFailed
    /\ pc = "ocr_show"

\* The remote call of each client failed.
ClassifyFailed == cls_resp.k \in {"neterr", "http", "badbody", "nofield"}
SubmitFailed ==
    \/ submit_resp.k \in {"neterr", "http"}
    \/ submit_resp.k = "ok" /\ ~submit_resp.header_loc /\ submit_resp.body # "loc"
PollFailed == result.k \in {"neterr", "http", "badbody"}
PreprocessFailed == pre_resp.k \in {"neterr", "http", "badbody", "nofield"}

Clients == {"classify_items_with_ai", "extract_text_from_receipt", "preprocess_ocr_text"}

\* C3: no client lets an exception reach the script; a failed remote call ends
\* the call with None (classification) or a warning-prefixed sentinel
\* (transcription, normalization), and the client issues no request after it:
\* no poll after a failed submit, and the loop is left at the failed poll.
C3_FailuresAreValues ==
    /\ crash.where \notin Clients
    /\ ClassifyFailed => (data = None /\ st_out # <<>>)
    /\ SubmitFailed =>
          (Returned /\ StartsWith(ocr_text, Warn) /\ polls = 0 /\ pc # "ocr_poll")
    /\ PollFailed =>
          (Returned /\ ocr_text = OcrError(result.exc) /\ StartsWith(ocr_text, Warn)
           /\ pc # "ocr_poll")
    /\ PreprocessFailed =>
          (cleaned_text = PreprocessError(pre_resp.exc) /\ StartsWith(cleaned_text, Warn))

C3_Witness ==
    /\ result.k = "http"
    /\ polls = 2
    /\ ocr_text = OcrError("404 Client Error")
    /\ shown_text = ocr_text
    /\ crash = NoCrash

\* The arithmetic sum, in half units, of the prices that are numbers.
RECURSIVE NumberSum(_)
NumberSum(items) ==
    IF items = <<>> THEN 0
    ELSE (IF Head(items).price.t = "num" THEN 2 * Head(items).price.n ELSE 0)
         + NumberSum(Tail(items))

\* C4, as stated: _safe_sum never raises and returns the sum of the prices that
\* are well-formed numbers, every other item contributing exactly 0.
C4_SafeSumIsNumberSum ==
    summary.shown =>
        /\ summary.essentials_total = F(NumberSum(summary.essentials))
        /\ summary.non_essentials_total = F(NumberSum(summary.non_essentials))

NonNegative(x) == ~x.nan /\ x.v >= 0

\* C5: for non-negative totals the summary has total = essentials +
\* non-essentials, saving_remove = non-essentials and saving_half = half of it;
\* the two percentages are shown exactly when the total is not zero, each the
\* tenth of a percent nearest to saving / total * 100; and no division by zero
\* ever happens.
C5_Summary ==
    /\ crash.exc # "ZeroDivisionError"
    /\ (summary.shown /\ NonNegative(summary.essentials_total)
                      /\ NonNegative(summary.non_essentials_total))
          => LET e == summary.essentials_total.v
                 n == summary.non_essentials_total.v
                 t == summary.total_spent.v
                 Near(pct, saving) ==
                     /\ 2 * (1000 * saving - pct * t) <= t
                     /\ 2 * (pct * t - 1000 * saving) <= t
             IN /\ ~summary.total_spent.nan /\ t = e + n
                /\ summary.saving_remove = F(n)
                /\ ~summary.saving_half.nan /\ 2 * summary.saving_half.v = n
                /\ summary.savings_shown <=> (t # 0)
                /\ summary.savings_shown =>
                      (Near(summary.pct_remove, n) /\ Near(summary.pct_half, summary.saving_half.v))

\* Essentials 3 and non-essentials 4: total 7, savings 4 (57.1%) and 2 (28.6%).
C5_Witness ==
    /\ pc = "idle"
    /\ summary.shown
    /\ summary.essentials_total = F(6)
    /\ summary.non_essentials_total = F(8)
    /\ summary.total_spent = F(14)
    /\ summary.saving_remove = F(8)
    /\ summary.saving_half = F(4)
    /\ summary.pct_remove = 571
    /\ summary.pct_half = 286

\* C6, as stated: a value classify_items_with_ai returns is None or an object
\* with the essentials, non_essentials and suggestions fields, so the summary
\* step never fails on it.
C6_FullOrNothing ==
    /\ data # None => (data.kind = "dict" /\ data.has = Keys)
    /\ crash.exc # "AttributeError"

WasShown(fn, arg) == \E i \in 1..Len(st_out) : st_out[i] = StCall(fn, arg)

ContentUnparsable ==
    cls_resp.k = "ok" /\ ~cls_resp.content_null /\ ~JsonLoads(cls_resp.content).ok

OcrEndedInFailure == ocr_outcome \in {"failed", "timeout", "no_handle", "no_text", "error"}

\* C8: when transcription ends in failure, the sentinel is what is shown as
\* the extracted text, and neither preprocess_ocr_text nor the receipt's
\* classify_items_with_ai is called in that run.
C8_FailureSkipsDownstream ==
    OcrEndedInFailure =>
        /\ StartsWith(ocr_text, Warn)
        /\ pc # "ocr_show" => shown_text = ocr_text
        /\ pc \notin {"preprocess", "receipt_button", "ocr_summary"}
        /\ "preprocess" \notin Range(calls)
        /\ "classify:receipt" \notin Range(calls)
        /\ pre_resp = NoResponse

C8_Witness ==
    /\ ocr_outcome = "no_handle"
    /\ shown_text = NoHandle
    /\ pc = "idle"
    /\ calls = <<"extract">>

\* C9: on succeeded the returned text is the lines of all pages, in page order
\* and line order within a page, each trimmed, the empty ones left out, joined
\* by line breaks; with no line left it is the no-text sentinel.
C9_PageThenLineOrder ==
    (Returned /\ SucceededReported) =>
        /\ TextMatches(result.readResults)
        /\ ocr_text # <<>>
        /\ ocr_text = NoTextFound \/ \A l \in Range(SplitLines(ocr_text)) :
                                        l # <<>> /\ l[1] # Space /\ l[Len(l)] # Space

C9_Witness ==
    /\ result.readResults =
          << <<Line(TRUE, <<Space, "b", Space>>), Line(TRUE, <<Space>>)>>,
             <<Line(TRUE, <<"a">>), Line(TRUE, <<"a">>)>> >>
    /\ ocr_text = <<"b", Newline, "a", Newline, "a">>
    /\ shown_text = ocr_text

\* C10, as stated: on the receipt path classify_items_with_ai is never called
\* with a warning-prefixed sentinel: only after a transcription and a
\* normalization that both succeeded.
C10_NoSentinelClassified ==
    "classify:receipt" \in Range(calls) =>
        /\ ~StartsWith(grocery_text, Warn)
        /\ ocr_outcome = "text"
        /\ pre_resp.k = "ok"

====
